---- MODULE Spec2Model ----
(***************************************************************************)
(* Model of scripts/generateReleases.js: the release-index generator.      *)
(* main (lines 98-281) searches repositories by topic, fetches each        *)
(* repository's latest release and metadata.json descriptor, validates     *)
(* every descriptor entry, aggregates the valid ones by category, merges   *)
(* releases_manual.json, sorts, and writes releases.json and ERRORS.md.    *)
(* Lines 289-495 of the file hold an earlier revision of the script; its   *)
(* search loop (344-355) and blocklist check (366-371) are the same        *)
(* statements as lines 116-127 and 136-141 modelled here.                  *)
(*                                                                         *)
(* JavaScript objects are records; a missing property is a missing field.  *)
(* Strings the program only compares or stores are TLA+ strings; strings   *)
(* it matches character by character (repository full names, blocklist     *)
(* patterns, file paths) are sequences of one-character strings.           *)
(***************************************************************************)
EXTENDS Integers, Sequences, FiniteSets, TLC

(***************************************************************************)
(* Bounds of the model.                                                    *)
(***************************************************************************)
MaxPages == 2       \* search pages the remote side serves (the last one is never full)
MaxShort == 2       \* items of a page that is not full
MaxEntries == 2     \* entries of an array descriptor

(***************************************************************************)
(* Program constants.                                                      *)
(***************************************************************************)
perPage == 50

validCategories == <<"Tools", "Games">>

(***************************************************************************)
(* Helpers for objects and sequences.                                      *)
(***************************************************************************)
Has(o, k) == k \in DOMAIN o

Without(o, ks) == [k \in DOMAIN o \ ks |-> o[k]]

With(o, key, v) == [k \in DOMAIN o \cup {key} |-> IF k = key THEN v ELSE o[k]]

Range(s) == {s[i] : i \in 1..Len(s)}

SeqsUpTo(S, n) == UNION {[1..k -> S] : k \in 0..n}

RECURSIVE Flatten(_)
Flatten(ss) == IF ss = <<>> THEN <<>> ELSE Head(ss) \o Flatten(Tail(ss))

(***************************************************************************)
(* escapeRegex, wildcardMatch, isBlocked (lines 31-45).                    *)
(* A regular expression source is a sequence of characters; RegexTest      *)
(* interprets the subset the program can build: ^, $, \c, ., .* and        *)
(* literal characters, with the i flag.                                    *)
(***************************************************************************)
RegexSpecial == {".", "*", "+", "?", "^", "$", "{", "}", "(", ")", "|", "[", "]", "\\"}

escapeRegex(s) ==
    Flatten([i \in 1..Len(s) |->
        IF s[i] \in RegexSpecial THEN <<"\\", s[i]>> ELSE <<s[i]>>])

\* String.prototype.split("*"): the segments between the stars.
RECURSIVE SplitStar(_, _)
SplitStar(s, cur) ==
    IF s = <<>> THEN <<cur>>
    ELSE IF Head(s) = "*" THEN <<cur>> \o SplitStar(Tail(s), <<>>)
    ELSE SplitStar(Tail(s), Append(cur, Head(s)))

\* Array.prototype.join(".*")
RECURSIVE JoinDotStar(_)
JoinDotStar(segs) ==
    IF Len(segs) = 1 THEN segs[1]
    ELSE segs[1] \o <<".", "*">> \o JoinDotStar(Tail(segs))

\* Canonicalize of the i flag: upper case.
Canonicalize(ch) ==
    CASE ch = "a" -> "A"
      [] ch = "b" -> "B"
      [] ch = "c" -> "C"
      [] ch = "d" -> "D"
      [] ch = "f" -> "F"
      [] OTHER -> ch

RECURSIVE RegexMatch(_, _, _, _)
RegexMatch(re, i, t, j) ==
    IF i > Len(re) THEN TRUE
    ELSE IF re[i] = "^" THEN j = 1 /\ RegexMatch(re, i + 1, t, j)
    ELSE IF re[i] = "$" THEN j = Len(t) + 1 /\ RegexMatch(re, i + 1, t, j)
    ELSE IF re[i] = "\\" THEN
        /\ j <= Len(t)
        /\ Canonicalize(t[j]) = Canonicalize(re[i + 1])
        /\ RegexMatch(re, i + 2, t, j + 1)
    ELSE IF re[i] = "." /\ i < Len(re) /\ re[i + 1] = "*" THEN
        \E k \in j..(Len(t) + 1) : RegexMatch(re, i + 2, t, k)
    ELSE IF re[i] = "." THEN j <= Len(t) /\ RegexMatch(re, i + 1, t, j + 1)
    ELSE
        /\ j <= Len(t)
        /\ Canonicalize(t[j]) = Canonicalize(re[i])
        /\ RegexMatch(re, i + 1, t, j + 1)

\* RegExp.prototype.test: a match starting at any position of the text.
RegexTest(re, t) == \E j \in 1..(Len(t) + 1) : RegexMatch(re, 1, t, j)

wildcardMatchUnanchored(pattern, text) ==
    RegexTest(<<"^">> \o JoinDotStar([i \in 1..Len(SplitStar(pattern, <<>>)) |->
                  escapeRegex(SplitStar(pattern, <<>>)[i])]), text)

wildcardMatch(pattern, text) ==
    RegexTest(<<"^">> \o JoinDotStar([i \in 1..Len(SplitStar(pattern, <<>>)) |->
                  escapeRegex(SplitStar(pattern, <<>>)[i])]) \o <<"$">>, text)

(***************************************************************************)
(* hasUnsafePath (lines 47-51): the value contains "..", a backslash or    *)
(* a tilde.                                                                *)
(***************************************************************************)
hasUnsafePath(value) ==
    \/ \E i \in 1..(Len(value) - 1) : value[i] = "." /\ value[i + 1] = "."
    \/ \E i \in 1..Len(value) : value[i] = "\\"
    \/ \E i \in 1..Len(value) : value[i] = "~"

(***************************************************************************)
(* validateMetadata (lines 53-81).  The result is the list of error        *)
(* messages, each [prefix, msg, file]: prefix is <<i>> for "[entry i] " and *)
(* <<>> for none, file is <<i>> for a message about files[i].  A null      *)
(* element of files makes the property read of line 65 throw.              *)
(***************************************************************************)
Truthy(o, k) == Has(o, k) /\ o[k] # ""

TruthyPath(o, k) == Has(o, k) /\ o[k] # <<>>

Message(prefix, msg, file) == [prefix |-> prefix, msg |-> msg, file |-> file]

fileErrors(file, i, prefix) ==
    IF file.kind # "object" \/ ~TruthyPath(file, "source") \/ ~TruthyPath(file, "destination")
    THEN <<Message(prefix, "files[] must be an object with 'source' and 'destination' keys", <<i>>)>>
    ELSE (IF hasUnsafePath(file.source)
          THEN <<Message(prefix, "files[].source contains invalid or unsafe characters", <<i>>)>>
          ELSE <<>>)
      \o (IF hasUnsafePath(file.destination)
          THEN <<Message(prefix, "files[].destination contains invalid or unsafe characters", <<i>>)>>
          ELSE <<>>)

validateThrows(entry) ==
    /\ Has(entry, "files")
    /\ \E i \in 1..Len(entry.files) : entry.files[i].kind = "null"

validateMetadataNoCategoryList(entry, prefix) ==
       (IF ~Truthy(entry, "name")
        THEN <<Message(prefix, "Missing required field: name", <<>>)>> ELSE <<>>)
    \o (IF ~Truthy(entry, "description")
        THEN <<Message(prefix, "Missing required field: description", <<>>)>> ELSE <<>>)
    \o (IF ~Has(entry, "files") \/ Len(entry.files) = 0
        THEN <<Message(prefix, "Field 'files' is missing or empty", <<>>)>>
        ELSE Flatten([i \in 1..Len(entry.files) |-> fileErrors(entry.files[i], i - 1, prefix)]))
    \o (IF ~Truthy(entry, "category")
        THEN <<Message(prefix, "Missing required field: category", <<>>)>>
        ELSE <<>>)

validateMetadata(entry, prefix) ==
       (IF ~Truthy(entry, "name")
        THEN <<Message(prefix, "Missing required field: name", <<>>)>> ELSE <<>>)
    \o (IF ~Truthy(entry, "description")
        THEN <<Message(prefix, "Missing required field: description", <<>>)>> ELSE <<>>)
    \o (IF ~Has(entry, "files") \/ Len(entry.files) = 0
        THEN <<Message(prefix, "Field 'files' is missing or empty", <<>>)>>
        ELSE Flatten([i \in 1..Len(entry.files) |-> fileErrors(entry.files[i], i - 1, prefix)]))
    \o (IF ~Truthy(entry, "category")
        THEN <<Message(prefix, "Missing required field: category", <<>>)>>
        ELSE IF entry.category \notin Range(validCategories)
        THEN <<Message(prefix, "Invalid category '" \o entry.category \o "'", <<>>)>>
        ELSE <<>>)

(***************************************************************************)
(* saveMetadataFile (lines 83-96).  path.join throws a TypeError when an   *)
(* argument is not a string; the file system maps a path to the object     *)
(* written there.                                                          *)
(***************************************************************************)
saveThrows(metadata) == ~({"owner", "repo", "name"} \subseteq DOMAIN metadata)

metadataPath(metadata) ==
    "repositories/" \o metadata.owner \o "/" \o metadata.repo \o "/" \o metadata.name
        \o "/metadata.json"

writeFile(fs, path, data) ==
    [p \in DOMAIN fs \cup {path} |-> IF p = path THEN data ELSE fs[p]]

NoFiles == [p \in {} |-> [name |-> ""]]

(***************************************************************************)
(* categorizedResults (line 131): an object whose keys keep insertion      *)
(* order, as a sequence of [cat, apps].                                    *)
(***************************************************************************)
Keys(obj) == {obj[i].cat : i \in 1..Len(obj)}

KeyIndex(obj, cat) == CHOOSE i \in 1..Len(obj) : obj[i].cat = cat

Apps(obj, cat) == IF cat \in Keys(obj) THEN obj[KeyIndex(obj, cat)].apps ELSE <<>>

\* if (!categorizedResults[category]) categorizedResults[category] = [];
ensureCategory(obj, cat) ==
    IF cat \in Keys(obj) THEN obj ELSE Append(obj, [cat |-> cat, apps |-> <<>>])

\* categorizedResults[category].push(app)
pushApp(obj, cat, app) ==
    [obj EXCEPT ![KeyIndex(obj, cat)].apps = Append(@, app)]

Hidden == {"tag", "published_at", "files"}

\* { ...metadata, metadata_file, tag: undefined, published_at: undefined, files: undefined }
indexEntry(metadata, path) == With(Without(metadata, Hidden), "metadata_file", path)

SameTriple(a, b) ==
    \A k \in {"owner", "repo", "name"} : Has(a, k) = Has(b, k) /\ (Has(a, k) => a[k] = b[k])

(***************************************************************************)
(* Array.prototype.sort with a comparator (stable), and the two orders     *)
(* the program sorts by: String.prototype.localeCompare on names (line     *)
(* 250: letters first, lower case before upper case of the same letter)    *)
(* and the default sort of the category keys (line 255: UTF-16 code        *)
(* units).                                                                 *)
(***************************************************************************)
LocaleKey(name) ==
    CASE name = "a" -> <<1, 0>>
      [] name = "A" -> <<1, 1>>
      [] name = "b" -> <<2, 0>>
      [] name = "B" -> <<2, 1>>
      [] name = "z" -> <<26, 0>>

CodeUnit(str) ==
    CASE str = "A" -> 65
      [] str \in {"B", "Bogus"} -> 66
      [] str = "Games" -> 71
      [] str = "Tools" -> 84
      [] str \in {"a", "apps"} -> 97
      [] str = "b" -> 98
      [] str = "z" -> 122

\* a.name.localeCompare(b.name) < 0, = 0
localeLess(a, b) ==
    \/ LocaleKey(a)[1] < LocaleKey(b)[1]
    \/ LocaleKey(a)[1] = LocaleKey(b)[1] /\ LocaleKey(a)[2] < LocaleKey(b)[2]

codeUnitLess(a, b) == CodeUnit(a) < CodeUnit(b)

appLessCodeUnit(a, b) == codeUnitLess(a.name, b.name)

\* (a, b) => a.name.localeCompare(b.name)
appLess(a, b) == localeLess(a.name, b.name)

\* categorizedResults[cat].sort(comparator): stable.
RECURSIVE insertApp(_, _)
insertApp(sorted, e) ==
    IF sorted = <<>> THEN <<e>>
    ELSE IF appLess(e, Head(sorted)) THEN <<e>> \o sorted
    ELSE <<Head(sorted)>> \o insertApp(Tail(sorted), e)

RECURSIVE sortByName(_)
sortByName(list) ==
    IF list = <<>> THEN <<>>
    ELSE insertApp(sortByName(SubSeq(list, 1, Len(list) - 1)), list[Len(list)])

catLess(a, b) == codeUnitLess(a.cat, b.cat)

\* Object.keys(categorizedResults).sort(), each key with its list.
RECURSIVE insertCategory(_, _)
insertCategory(sorted, e) ==
    IF sorted = <<>> THEN <<e>>
    ELSE IF catLess(e, Head(sorted)) THEN <<e>> \o sorted
    ELSE <<Head(sorted)>> \o insertCategory(Tail(sorted), e)

RECURSIVE sortKeys(_)
sortKeys(obj) ==
    IF obj = <<>> THEN <<>>
    ELSE insertCategory(sortKeys(SubSeq(obj, 1, Len(obj) - 1)), obj[Len(obj)])

(***************************************************************************)
(* The remote side: what the search API, the release API and the raw       *)
(* descriptor download can answer.                                         *)
(***************************************************************************)
Repo(fullName, login, name) ==
    [full_name |-> fullName, owner |-> [login |-> login], name |-> name]

RepoA == Repo(<<"a", "/", "b">>, "a", "b")

RepoC == Repo(<<"C", "/", "d">>, "C", "d")

\* The repositories of a full page: f/f1 .. f/f50, none with a published release.
Digits(n) == IF n < 10 THEN <<ToString(n)>> ELSE <<ToString(n \div 10), ToString(n % 10)>>

Filler(i) == Repo(<<"f", "/", "f">> \o Digits(i), "f", "f" \o ToString(i))

FullPage == [i \in 1..perPage |-> Filler(i)]

ShortPool == {RepoA, RepoC}

ShortPages ==
    {s \in SeqsUpTo(ShortPool, MaxShort) : \A i, j \in 1..Len(s) : s[i] = s[j] => i = j}

Release == [name |-> "v1", tag_name |-> "t1", published_at |-> "2025-01-01"]

FileOk == [kind |-> "object", source |-> <<"s">>, destination |-> <<"d">>]

FileDot == [kind |-> "object", source |-> <<".", "s">>, destination |-> <<"d", ".">>]

BadFiles ==
    { [kind |-> "object", destination |-> <<"d">>],
      [kind |-> "object", source |-> <<"s">>],
      [kind |-> "object", source |-> <<>>, destination |-> <<"d">>],
      [kind |-> "object", source |-> <<".", ".", "/", "s">>, destination |-> <<"d">>],
      [kind |-> "object", source |-> <<"s">>, destination |-> <<"d", "/", ".", ".">>],
      [kind |-> "object", source |-> <<"s", "\\", "s">>, destination |-> <<"d">>],
      [kind |-> "object", source |-> <<"s">>, destination |-> <<"~", "/", "d">>],
      [kind |-> "string"],
      [kind |-> "null"] }

Entry(name, category) ==
    [name |-> name, category |-> category, description |-> "text", files |-> <<FileOk>>]

GoodEntries ==
    { Entry("a", "Games"), Entry("a", "Tools"), Entry("B", "Games"),
      [Entry("B", "Tools") EXCEPT !.files = <<FileOk, FileDot>>] }

BadEntries ==
    { Without(Entry("a", "Games"), {"name"}),
      Entry("", "Games"),
      Without(Entry("a", "Games"), {"description"}),
      [Entry("a", "Games") EXCEPT !.description = ""],
      Without(Entry("a", "Games"), {"files"}),
      [Entry("a", "Games") EXCEPT !.files = <<>>],
      Without(Entry("a", "Games"), {"category"}),
      Entry("a", ""),
      Entry("a", "Bogus"),
      Without(Entry("", "Bogus"), {"description", "files"}) }
    \cup {[Entry("a", "Games") EXCEPT !.files = <<f>>] : f \in BadFiles}
    \cup { [Entry("B", "Tools") EXCEPT !.files = <<FileOk, [kind |-> "string"]>>],
           [Entry("B", "Tools") EXCEPT !.files = <<FileOk, [kind |-> "null"]>>],
           [Entry("B", "Tools") EXCEPT !.files =
               <<[kind |-> "object", source |-> <<"~">>, destination |-> <<".", ".">>], FileOk>>] }

\* Entries array descriptors are made of.
ArrayPool ==
    { Entry("a", "Games"), Entry("a", "Tools"),
      Without(Entry("B", "Games"), {"name"}),
      [Entry("B", "Games") EXCEPT !.files = <<[kind |-> "null"]>>] }

Descriptors(repo) ==
    IF repo = RepoA
    THEN {[kind |-> "object", entry |-> e] : e \in GoodEntries \cup BadEntries}
         \cup {[kind |-> "array", entries |-> es] : es \in SeqsUpTo(ArrayPool, MaxEntries)}
    ELSE IF repo = RepoC
    THEN {[kind |-> "object", entry |-> Entry("b", "Games")]}
    ELSE {}

\* The outcomes of the two requests of lines 150-157 for a repository.
Responses(repo) ==
    {[kind |-> "release_failed"]}
    \cup (IF repo = RepoA THEN {[kind |-> "descriptor_failed"]} ELSE {})
    \cup Descriptors(repo)

(***************************************************************************)
(* releases_manual.json: absent, unparsable, or an object of category ->   *)
(* apps, as a sequence of [cat, apps] in key order.                        *)
(***************************************************************************)
ManualApp(owner, repo, name, category) ==
    [owner |-> owner, repo |-> repo, name |-> name, category |-> category,
     description |-> "manual", version |-> "m1"]

ManualFiles ==
    { [kind |-> "absent"],
      [kind |-> "unparsable"],
      [kind |-> "object",
       data |-> <<[cat |-> "Games",
                   apps |-> <<ManualApp("a", "b", "a", "Games"), ManualApp("m", "m", "A", "Games"),
                              ManualApp("m", "m", "A", "Games")>>]>>],
      [kind |-> "object",
       data |-> <<[cat |-> "apps", apps |-> <<ManualApp("m", "m", "b", "apps")>>],
                  [cat |-> "Tools", apps |-> <<ManualApp("a", "b", "a", "Tools")>>]>>],
      [kind |-> "object",
       data |-> <<[cat |-> "Games",
                   apps |-> <<ManualApp("m", "m", "A", "Games"),
                              Without(ManualApp("m", "m", "z", "Games"), {"owner"}),
                              ManualApp("m", "m", "b", "Games")>>]>>] }

Blocklists ==
    { <<>>,
      <<<<"a", ".", "b">>, <<"a", "/">>, <<"*", "/", "F", "1">>, <<"c", "/", "*">>>>,
      <<<<"x">>, <<"*", "/", "*", "b">>>> }

(***************************************************************************)
(* State.                                                                  *)
(***************************************************************************)
VARIABLES
    isManualRun,         \* line 12
    blocklist,           \* lines 20-29
    pc,                  \* position in main
    page,                \* line 111
    repos,               \* line 110
    pos,                 \* index of the repository the loop of line 133 is at
    errors,              \* line 113
    blocklistHits,       \* line 114
    categorizedResults,  \* line 131
    repositoriesDir,     \* the repositories folder: path -> object written there
    releasesJson,        \* releases.json as written at line 261
    errorsMd,            \* the lines of ERRORS.md as written at line 279
    requests,            \* the HTTP requests issued, in order
    served,              \* history: the answers to the search requests, in order
    skipped,             \* the full names printed by line 213
    discovered,          \* history: categorizedResults when the loop of line 133 ended
    manualData           \* releases_manual.json as read at lines 220-222

vars == <<isManualRun, blocklist, pc, page, repos, pos, errors, blocklistHits,
          categorizedResults, repositoriesDir, releasesJson, errorsMd, requests,
          served, skipped, discovered, manualData>>

StaleFile == [name |-> "old", owner |-> "a", repo |-> "b", category |-> "Games"]

Init ==
    /\ isManualRun \in BOOLEAN
    /\ blocklist \in Blocklists
    /\ pc = "start"
    /\ page = 1
    /\ repos = <<>>
    /\ pos = 1
    /\ errors = <<>>
    /\ blocklistHits = <<>>
    /\ categorizedResults = <<>>
    /\ repositoriesDir \in {NoFiles, writeFile(NoFiles, "repositories/a/b/old/metadata.json", StaleFile)}
    /\ releasesJson = <<>>
    /\ errorsMd = <<>>
    /\ requests = <<>>
    /\ served = <<>>
    /\ skipped = <<>>
    /\ discovered = <<>>
    /\ manualData = [kind |-> "unread"]

isBlocked(fullName) ==
    \E i \in 1..Len(blocklist) : wildcardMatch(blocklist[i], fullName)

(***************************************************************************)
(* Lines 99-106: the repositories folder is removed and created again.     *)
(***************************************************************************)
ClearRepositories ==
    /\ pc = "start"
    /\ repositoriesDir' = NoFiles
    /\ pc' = "search"
    /\ UNCHANGED <<isManualRun, blocklist, page, repos, pos, errors, blocklistHits,
                   categorizedResults, releasesJson, errorsMd, requests, served,
                   skipped, discovered, manualData>>

(***************************************************************************)
(* Lines 116-127: one iteration of the search loop.                        *)
(***************************************************************************)
SearchAnswers(pg) ==
    {[kind |-> "failed"]}
    \cup {[kind |-> "ok", items |-> s] : s \in ShortPages}
    \cup (IF pg < MaxPages THEN {[kind |-> "ok", items |-> FullPage]} ELSE {})

lastPageIfNotMore(items) == Len(items) <= perPage

\* if (res.data.items.length < perPage) break;
lastPage(items) == Len(items) < perPage

SearchPage ==
    /\ pc = "search"
    /\ \E answer \in SearchAnswers(page) :
         /\ requests' = Append(requests, [kind |-> "search", page |-> page, per_page |-> perPage])
         /\ served' = Append(served, answer)
         /\ IF answer.kind = "failed"
            THEN /\ errors' = Append(errors, [kind |-> "search", page |-> page])
                 /\ pc' = "process"
                 /\ UNCHANGED <<repos, page>>
            ELSE /\ repos' = repos \o answer.items
                 /\ IF lastPage(answer.items)
                    THEN pc' = "process" /\ page' = page
                    ELSE pc' = "search" /\ page' = page + 1
                 /\ UNCHANGED errors
    /\ UNCHANGED <<isManualRun, blocklist, pos, blocklistHits, categorizedResults,
                   repositoriesDir, releasesJson, errorsMd, skipped, discovered, manualData>>

(***************************************************************************)
(* Lines 133-217: one iteration of the loop over the repositories.         *)
(***************************************************************************)
\* Lines 136-141.
SkipBlocked ==
    /\ pc = "process"
    /\ pos <= Len(repos)
    /\ isBlocked(repos[pos].full_name)
    /\ blocklistHits' = Append(blocklistHits, [kind |-> "blocked", repo |-> repos[pos].full_name])
    /\ pos' = pos + 1
    /\ UNCHANGED <<isManualRun, blocklist, pc, page, repos, errors, categorizedResults,
                   repositoriesDir, releasesJson, errorsMd, requests, served, skipped,
                   discovered, manualData>>

\* Lines 176-186.
fullMetadata(entry, release, repo) ==
    [name |-> entry.name, category |-> entry.category, description |-> entry.description,
     version |-> release.name, tag |-> release.tag_name,
     published_at |-> release.published_at, owner |-> repo.owner.login,
     repo |-> repo.name, files |-> entry.files]

ValidationIssues(repo, msgs) ==
    [i \in 1..Len(msgs) |-> [kind |-> "validation", repo |-> repo.full_name, err |-> msgs[i]]]

\* Lines 162-201: the entries from index i on; st is [cr, fs, errors, repoHasError, threw].
RECURSIVE processEntries(_, _, _, _, _)
processEntries(entries, i, isArray, repo, st) ==
    IF i > Len(entries) THEN st
    ELSE IF validateThrows(entries[i]) THEN [st EXCEPT !.threw = TRUE]
    ELSE LET entryErrors == validateMetadata(entries[i], IF isArray THEN <<i - 1>> ELSE <<>>)
             meta == fullMetadata(entries[i], Release, repo)
         IN  IF Len(entryErrors) > 0
             THEN processEntries(entries, i + 1, isArray, repo,
                      [st EXCEPT !.errors = @ \o ValidationIssues(repo, entryErrors),
                                 !.repoHasError = TRUE])
             ELSE IF saveThrows(meta) THEN [st EXCEPT !.threw = TRUE]
             ELSE processEntries(entries, i + 1, isArray, repo,
                      [st EXCEPT !.fs = writeFile(@, metadataPath(meta), meta),
                                 !.cr = pushApp(ensureCategory(@, meta.category), meta.category,
                                                indexEntry(meta, metadataPath(meta)))])

FetchIssue(repo) == [kind |-> "fetch", repo |-> repo.full_name]

\* Lines 143-216.
ProcessRepo ==
    /\ pc = "process"
    /\ pos <= Len(repos)
    /\ ~isBlocked(repos[pos].full_name)
    /\ \E answer \in Responses(repos[pos]) :
         LET repo == repos[pos]
             releaseReq == [kind |-> "release", owner |-> repo.owner.login, repo |-> repo.name]
             metadataReq == [kind |-> "metadata", owner |-> repo.owner.login,
                             repo |-> repo.name, tag |-> Release.tag_name]
             st0 == [cr |-> categorizedResults, fs |-> repositoriesDir, errors |-> errors,
                     repoHasError |-> FALSE, threw |-> FALSE]
             isArray == answer.kind = "array"
             st == IF answer.kind = "array" THEN processEntries(answer.entries, 1, TRUE, repo, st0)
                   ELSE IF answer.kind = "object"
                   THEN processEntries(<<answer.entry>>, 1, FALSE, repo, st0)
                   ELSE [st0 EXCEPT !.threw = TRUE]
             hasError == st.threw \/ st.repoHasError
         IN  /\ requests' = IF answer.kind = "release_failed"
                            THEN Append(requests, releaseReq)
                            ELSE requests \o <<releaseReq, metadataReq>>
             /\ categorizedResults' = st.cr
             /\ repositoriesDir' = st.fs
             /\ errors' = IF st.threw THEN Append(st.errors, FetchIssue(repo)) ELSE st.errors
             /\ skipped' = IF hasError THEN Append(skipped, repo.full_name) ELSE skipped
    /\ pos' = pos + 1
    /\ UNCHANGED <<isManualRun, blocklist, pc, page, repos, blocklistHits, releasesJson,
                   errorsMd, served, discovered, manualData>>

\* The loop of line 133 ends.
EndOfRepos ==
    /\ pc = "process"
    /\ pos > Len(repos)
    /\ pc' = "merge"
    /\ discovered' = categorizedResults
    /\ UNCHANGED <<isManualRun, blocklist, page, repos, pos, errors, blocklistHits,
                   categorizedResults, repositoriesDir, releasesJson, errorsMd, requests,
                   served, skipped, manualData>>

(***************************************************************************)
(* Lines 219-246: releases_manual.json is merged; an exception anywhere in *)
(* the try block ends the merge where it is.                               *)
(***************************************************************************)
existsInStrict(list, app) == \E i \in 1..Len(list) : list[i] = app

\* Lines 227-229.
existsIn(list, app) == \E i \in 1..Len(list) : SameTriple(list[i], app)

\* Lines 226-241: the apps of one category; st is [cr, fs, threw].
RECURSIVE mergeApps(_, _, _)
mergeApps(apps, cat, st) ==
    IF apps = <<>> THEN st
    ELSE IF existsIn(Apps(st.cr, cat), Head(apps)) THEN mergeApps(Tail(apps), cat, st)
    ELSE IF saveThrows(Head(apps)) THEN [st EXCEPT !.threw = TRUE]
    ELSE mergeApps(Tail(apps), cat,
             [st EXCEPT !.fs = writeFile(@, metadataPath(Head(apps)), Head(apps)),
                        !.cr = pushApp(@, cat, indexEntry(Head(apps), metadataPath(Head(apps))))])

\* Lines 223-242.
RECURSIVE mergeCategories(_, _)
mergeCategories(data, st) ==
    IF data = <<>> \/ st.threw THEN st
    ELSE mergeCategories(Tail(data),
             mergeApps(Head(data).apps, Head(data).cat,
                       [st EXCEPT !.cr = ensureCategory(@, Head(data).cat)]))

MergeManual ==
    /\ pc = "merge"
    /\ \E manual \in ManualFiles :
         LET st0 == [cr |-> categorizedResults, fs |-> repositoriesDir, threw |-> FALSE]
             st == IF manual.kind = "object" THEN mergeCategories(manual.data, st0) ELSE st0
         IN  /\ categorizedResults' = st.cr
             /\ repositoriesDir' = st.fs
             /\ manualData' = manual
    /\ pc' = "sort"
    /\ UNCHANGED <<isManualRun, blocklist, page, repos, pos, errors, blocklistHits,
                   releasesJson, errorsMd, requests, served, skipped, discovered>>

(***************************************************************************)
(* Lines 248-262: every category list is sorted in place by name, the      *)
(* categories are copied in sorted key order, releases.json is written.    *)
(***************************************************************************)
sortApps(obj) == [i \in 1..Len(obj) |-> [obj[i] EXCEPT !.apps = sortByName(@)]]

sortCategories(obj) == sortKeys(obj)

SortAndWrite ==
    /\ pc = "sort"
    /\ categorizedResults' = sortApps(categorizedResults)
    /\ releasesJson' = sortCategories(sortApps(categorizedResults))
    /\ pc' = "report"
    /\ UNCHANGED <<isManualRun, blocklist, page, repos, pos, errors, blocklistHits,
                   repositoriesDir, errorsMd, requests, served, skipped, discovered, manualData>>

(***************************************************************************)
(* Lines 264-280: ERRORS.md.                                               *)
(***************************************************************************)
Bullets(list) == [i \in 1..Len(list) |-> [bullet |-> list[i]]]

errorReportManualOnly(errs, hits, manual) ==
    <<[text |-> "# Error Report"], [text |-> ""]>>
    \o (IF Len(errs) = 0 /\ (~manual \/ Len(hits) = 0)
        THEN <<[text |-> "No errors or warnings detected"]>>
        ELSE (IF Len(errs) > 0 /\ manual
              THEN <<[heading |-> "Metadata / Processing Issues", count |-> Len(errs)]>>
                   \o Bullets(errs) \o <<[text |-> ""]>>
              ELSE <<>>)
          \o (IF Len(hits) > 0 /\ manual
              THEN <<[heading |-> "Blocked Repositories", count |-> Len(hits)]>> \o Bullets(hits)
              ELSE <<>>))

errorReport(errs, hits, manual) ==
    <<[text |-> "# Error Report"], [text |-> ""]>>
    \o (IF Len(errs) = 0 /\ (~manual \/ Len(hits) = 0)
        THEN <<[text |-> "No errors or warnings detected"]>>
        ELSE (IF Len(errs) > 0
              THEN <<[heading |-> "Metadata / Processing Issues", count |-> Len(errs)]>>
                   \o Bullets(errs) \o <<[text |-> ""]>>
              ELSE <<>>)
          \o (IF Len(hits) > 0 /\ manual
              THEN <<[heading |-> "Blocked Repositories", count |-> Len(hits)]>> \o Bullets(hits)
              ELSE <<>>))

WriteErrors ==
    /\ pc = "report"
    /\ errorsMd' = errorReport(errors, blocklistHits, isManualRun)
    /\ pc' = "done"
    /\ UNCHANGED <<isManualRun, blocklist, page, repos, pos, errors, blocklistHits,
                   categorizedResults, repositoriesDir, releasesJson, requests, served,
                   skipped, discovered, manualData>>

Next ==
    \/ ClearRepositories
    \/ SearchPage
    \/ SkipBlocked
    \/ ProcessRepo
    \/ EndOfRepos
    \/ MergeManual
    \/ SortAndWrite
    \/ WriteErrors

Spec == Init /\ [][Next]_vars

TypeOK == pc \in {"start", "search", "process", "merge", "sort", "report", "done"}

(***************************************************************************)
(* Vocabulary of the properties.                                           *)
(***************************************************************************)
BeforeMerge == pc \in {"process", "merge"}

Written == pc \in {"report", "done"}

\* The entries of an index, as (category key, entry) pairs.
IndexPairs(obj) ==
    UNION {{<<obj[i].cat, obj[i].apps[j]>> : j \in 1..Len(obj[i].apps)} : i \in 1..Len(obj)}

OfRepo(thing, repo) ==
    /\ Has(thing, "owner") /\ thing.owner = repo.owner.login
    /\ Has(thing, "repo") /\ thing.repo = repo.name

Count(list, app) == Cardinality({i \in 1..Len(list) : SameTriple(list[i], app)})

SafePath(path) ==
    /\ path # <<>>
    /\ \A i \in 1..Len(path) : path[i] \notin {"\\", "~"}
    /\ \A i \in 1..Len(path) : i < Len(path) => ~(path[i] = "." /\ path[i + 1] = ".")

SafeFile(file) ==
    /\ file.kind = "object"
    /\ Has(file, "source") /\ SafePath(file.source)
    /\ Has(file, "destination") /\ SafePath(file.destination)

\* C1: until the manual merge, every entry of the index has a non-empty name and
\* description and a category of the valid-categories list, is stored under the key
\* of its own category, and its metadata file holds a non-empty files list whose
\* elements all have a source and a destination free of "..", backslash and tilde.
C1_OnlyValidatedEntries ==
    BeforeMerge =>
        \A p \in IndexPairs(categorizedResults) :
            /\ Has(p[2], "name") /\ p[2].name # ""
            /\ Has(p[2], "description") /\ p[2].description # ""
            /\ Has(p[2], "category")
            /\ \E k \in 1..Len(validCategories) : validCategories[k] = p[2].category
            /\ p[1] = p[2].category
            /\ p[2].metadata_file \in DOMAIN repositoriesDir
            /\ LET saved == repositoriesDir[p[2].metadata_file]
               IN  /\ Has(saved, "files") /\ Len(saved.files) > 0
                   /\ \A k \in 1..Len(saved.files) : SafeFile(saved.files[k])

\* C1 witness: discovery has ended with entries under two categories and with
\* validation errors recorded for rejected entries.
C1_Witness ==
    /\ pc = "merge"
    /\ Cardinality(Keys(categorizedResults)) = 2
    /\ \E i \in 1..Len(errors) : errors[i].kind = "validation"

\* C2 as claimed: no category list of releases.json holds two entries with the same
\* (owner, repo, name).
C2_NoDuplicateTriple ==
    Written =>
        \A i \in 1..Len(releasesJson) :
            \A j, k \in 1..Len(releasesJson[i].apps) :
                SameTriple(releasesJson[i].apps[j], releasesJson[i].apps[k]) => j = k

\* C2 amended: a category list of releases.json holds an (owner, repo, name) more
\* than once only as often as discovery itself added it to that category; the merge
\* never adds an app whose triple the list already holds.
C2_ManualAppsDeduplicated ==
    Written =>
        \A i \in 1..Len(releasesJson) :
            \A j \in 1..Len(releasesJson[i].apps) :
                LET app == releasesJson[i].apps[j]
                    before == Count(Apps(discovered, releasesJson[i].cat), app)
                IN  Count(releasesJson[i].apps, app) = (IF before > 0 THEN before ELSE 1)

\* C2 witness: the manual file listed an app that discovery had found and an app
\* twice; each is in the written list once.
C2_Witness ==
    /\ pc = "done"
    /\ manualData.kind = "object"
    /\ \E i \in 1..Len(releasesJson) :
         /\ releasesJson[i].cat = "Games"
         /\ Count(Apps(discovered, "Games"), ManualApp("a", "b", "a", "Games")) = 1
         /\ Count(manualData.data[1].apps, ManualApp("m", "m", "A", "Games")) = 2
         /\ Count(releasesJson[i].apps, ManualApp("a", "b", "a", "Games")) = 1
         /\ Count(releasesJson[i].apps, ManualApp("m", "m", "A", "Games")) = 1

\* C3: every issue recorded in errors (search failure, fetch failure, validation
\* error) is a bullet line of ERRORS.md, and a failed search page is recorded.
C3_AllIssuesReported ==
    pc = "done" =>
        /\ \A i \in 1..Len(errors) : \E l \in 1..Len(errorsMd) : errorsMd[l] = [bullet |-> errors[i]]
        /\ \A k \in 1..Len(served) :
               served[k].kind = "failed" =>
                   \E l \in 1..Len(errorsMd) : errorsMd[l] = [bullet |-> [kind |-> "search", page |-> k]]

\* C3 witness: a scheduled run with blocked repositories that recorded a fetch
\* failure and a validation error has written its report.
C3_Witness ==
    /\ pc = "done"
    /\ ~isManualRun
    /\ Len(blocklistHits) > 0
    /\ \E i \in 1..Len(errors) : errors[i].kind = "fetch"
    /\ \E i \in 1..Len(errors) : errors[i].kind = "validation"

\* C4 as claimed: after the merge of a manual file that parsed, every app it lists
\* under a category has an entry with its (owner, repo, name) in that category's list.
C4_ManualAppsRepresented ==
    (pc = "sort" /\ manualData.kind = "object") =>
        \A i \in 1..Len(manualData.data) :
            \A j \in 1..Len(manualData.data[i].apps) :
                existsIn(Apps(categorizedResults, manualData.data[i].cat),
                         manualData.data[i].apps[j])

NameOrdered(list) ==
    \A j \in 1..Len(list) : j < Len(list) =>
        \/ LocaleKey(list[j].name)[1] < LocaleKey(list[j + 1].name)[1]
        \/ /\ LocaleKey(list[j].name)[1] = LocaleKey(list[j + 1].name)[1]
           /\ LocaleKey(list[j].name)[2] <= LocaleKey(list[j + 1].name)[2]

KeysOrdered(obj) ==
    \A i \in 1..Len(obj) : i < Len(obj) => CodeUnit(obj[i].cat) < CodeUnit(obj[i + 1].cat)

IsPermutation(a, b) ==
    /\ Len(a) = Len(b)
    /\ \A e \in Range(a) \cup Range(b) :
           Cardinality({j \in 1..Len(a) : a[j] = e}) = Cardinality({j \in 1..Len(b) : b[j] = e})

SameEntries(agg, out) ==
    /\ Len(agg) = Len(out)
    /\ Keys(agg) = Keys(out)
    /\ \A c \in Keys(agg) : IsPermutation(Apps(agg, c), Apps(out, c))

\* C5: the step that writes releases.json writes the category keys in ascending
\* order, every category list in ascending order of name, and exactly the
\* aggregated entries of every category.
C5_SortedIndex ==
    [][pc = "sort" =>
          /\ KeysOrdered(releasesJson')
          /\ \A i \in 1..Len(releasesJson') : NameOrdered(releasesJson'[i].apps)
          /\ SameEntries(categorizedResults, releasesJson')]_vars

\* C5 witness: releases.json is written with two categories that were aggregated in
\* the other order and with a manual entry sorted in front of a discovered one.
C5_Witness ==
    /\ pc = "report"
    /\ Len(releasesJson) = 2
    /\ Len(discovered) = 2
    /\ discovered[1].cat = releasesJson[2].cat
    /\ \E i \in 1..Len(releasesJson) :
         \E j, k \in 1..Len(releasesJson[i].apps) :
             /\ j < k
             /\ releasesJson[i].apps[j].owner = "m"
             /\ releasesJson[i].apps[k].owner = "C"

SearchRequests == SelectSeq(requests, LAMBDA r : r.kind = "search")

SearchErrors == SelectSeq(errors, LAMBDA e : e.kind = "search")

ItemsOf(answer) == IF answer.kind = "ok" THEN answer.items ELSE <<>>

\* C6: the search requests are pages 1, 2, 3, ... with 50 items per page; every
\* answered page but the last was full; the loop is left exactly when the last
\* answer failed or held fewer than 50 items; repos is the concatenation of the
\* answered pages; a failed page leaves exactly one search failure in errors and the
\* run goes on to the repositories collected.
C6_PaginatedDiscovery ==
    /\ Len(SearchRequests) = Len(served)
    /\ \A k \in 1..Len(SearchRequests) :
           SearchRequests[k].page = k /\ SearchRequests[k].per_page = 50
    /\ \A k \in 1..Len(served) :
           k < Len(served) => served[k].kind = "ok" /\ Len(served[k].items) >= 50
    /\ repos = Flatten([k \in 1..Len(served) |-> ItemsOf(served[k])])
    /\ pc = "search" =>
           Len(served) = 0 \/ (served[Len(served)].kind = "ok" /\ Len(served[Len(served)].items) >= 50)
    /\ pc \notin {"start", "search"} =>
           /\ Len(served) > 0
           /\ \/ served[Len(served)].kind = "failed"
              \/ Len(served[Len(served)].items) < 50
    /\ SearchErrors = IF Len(served) > 0 /\ served[Len(served)].kind = "failed"
                      THEN <<[kind |-> "search", page |-> Len(served)]>>
                      ELSE <<>>

\* C6 witness: page 1 was full, page 2 failed, and the run finished with the 50
\* repositories of page 1.
C6_Witness ==
    /\ pc = "done"
    /\ Len(served) = 2
    /\ served[2].kind = "failed"
    /\ Len(repos) = 50

\* The discovered repositories with the given full name.
Named(fullName) == {repos[k] : k \in {n \in 1..Len(repos) : repos[n].full_name = fullName}}

\* C7 as claimed: once "Skipping <full_name>" is printed for a repository, the index
\* built by discovery holds no entry of it and no metadata file of it is written.
C7_SkippedRepoContributesNothing ==
    BeforeMerge =>
        \A i \in 1..Len(skipped) :
            \A repo \in Named(skipped[i]) :
                /\ \A p \in IndexPairs(categorizedResults) : ~OfRepo(p[2], repo)
                /\ \A f \in DOMAIN repositoriesDir : ~OfRepo(repositoriesDir[f], repo)

\* The match the blocklist is meant to make: the whole name, letters compared
\* without case, "*" for any run of characters, every other character itself.
RECURSIVE WildMatch(_, _)
WildMatch(pattern, text) ==
    IF pattern = <<>> THEN text = <<>>
    ELSE IF Head(pattern) = "*"
    THEN \E k \in 0..Len(text) : WildMatch(Tail(pattern), SubSeq(text, k + 1, Len(text)))
    ELSE /\ text # <<>>
         /\ Canonicalize(Head(pattern)) = Canonicalize(Head(text))
         /\ WildMatch(Tail(pattern), Tail(text))

Listed(fullName) == \E i \in 1..Len(blocklist) : WildMatch(blocklist[i], fullName)

\* C8: the blocklist hits are, in order, exactly the repositories handled so far
\* whose full name matches a pattern; no release or descriptor request names such a
\* repository, and discovery adds no index entry and no metadata file for it.
C8_BlockedSkippedBeforeFetch ==
    /\ LET matching == SelectSeq(SubSeq(repos, 1, pos - 1), LAMBDA r : Listed(r.full_name))
       IN  blocklistHits =
               [h \in 1..Len(matching) |-> [kind |-> "blocked", repo |-> matching[h].full_name]]
    /\ \A k \in 1..Len(repos) :
           Listed(repos[k].full_name) =>
               /\ \A r \in 1..Len(requests) :
                      requests[r].kind \in {"release", "metadata"} => ~OfRepo(requests[r], repos[k])
               /\ BeforeMerge =>
                      /\ \A p \in IndexPairs(categorizedResults) : ~OfRepo(p[2], repos[k])
                      /\ \A f \in DOMAIN repositoriesDir : ~OfRepo(repositoriesDir[f], repos[k])

\* C8 witness: discovery ended with a blocked repository skipped and another
\* repository of the same search fetched and indexed.
C8_Witness ==
    /\ pc = "merge"
    /\ Len(blocklistHits) > 0
    /\ \E r \in 1..Len(requests) : requests[r].kind = "metadata"
    /\ Len(categorizedResults) > 0

FieldEq(a, b, k) == Has(a, k) = Has(b, k) /\ (Has(a, k) => a[k] = b[k])

\* C9 as claimed: at the end of the run the file named by every index entry's
\* metadata_file exists and holds the name, category, owner and repo of that entry.
C9_IndexAndFilesAgree ==
    pc = "done" =>
        \A p \in IndexPairs(releasesJson) :
            /\ p[2].metadata_file \in DOMAIN repositoriesDir
            /\ \A k \in {"name", "category", "owner", "repo"} :
                   FieldEq(repositoriesDir[p[2].metadata_file], p[2], k)

====
